---- MODULE Spec2Model ----
(***************************************************************************)
(* A model of the numeric core of number-types: the MatrixSquare class     *)
(* (src/src/class/MatrixSquare.class.ts, lines 1-132) and the Percentage   *)
(* class (same file, lines 134-309).                                       *)
(*                                                                         *)
(* Numbers.  A JavaScript number is modelled exactly, as a pair <<n, d>>:  *)
(*   d > 0        the rational n/d in lowest terms                         *)
(*   <<0, 0>>     NaN                                                      *)
(*   <<1, 0>>     Infinity,  <<-1, 0>> -Infinity                           *)
(*   <<0, -1>>    undefined                                                *)
(*   <<1, -1>>    a hole of a sparse array: reading it yields undefined,   *)
(*                map, forEach, filter and reduce skip it                  *)
(* Rounding, overflow to Infinity and the sign of zero are not modelled.   *)
(*                                                                         *)
(* Objects.  A matrix object is a record [cls, data]: cls is the class the *)
(* object was constructed with ("Matrix" or "MatrixSquare"), which decides *)
(* the methods a call dispatches to, and data is _DATA, a sequence of      *)
(* rows.  A thrown exception is a record whose cls is the error's name.    *)
(***************************************************************************)
EXTENDS Integers, Sequences, FiniteSets, TLC

VARIABLES
    mat,     \* the value the last matrix operation produced (an object or an error)
    prev,    \* the receiver of the last matrix operation
    other,   \* the argument of the last times(), as a matrix object
    num,     \* the number (or error) the last det produced
    src0,    \* the caller's array of rows as passed to the last constructor call
    src,     \* the same array after the constructor returned
    op,      \* the name of the last operation
    steps,   \* how many operations were chained since the last construction
    pct,     \* the value the last Percentage operation produced (an object or an error)
    precv,   \* the receiver of the last Percentage operation
    pargs    \* the arguments of the last Percentage operation

vars == <<mat, prev, other, num, src0, src, op, steps, pct, precv, pargs>>

---------------------------------------------------------------------------
(* Bounds of the model. *)

\* the largest matrix size the inputs are drawn from
MaxN == 2

\* the longest chain of operations after a construction
MaxOps == 2

\* the cells of the square input grids
CellVals == {-1, 0, 2}

---------------------------------------------------------------------------
(* JavaScript numbers. *)

NaN == <<0, 0>>
Undefined == <<0, -1>>
Hole == <<1, -1>>
PosInf == <<1, 0>>
NegInf == <<-1, 0>>

Abs(n) == IF n < 0 THEN -n ELSE n

RECURSIVE Gcd(_, _)
Gcd(a, b) == IF b = 0 THEN a ELSE Gcd(b, a % b)

\* the number n/d, d # 0, in lowest terms
Rat(n, d) ==
    LET g == Gcd(Abs(n), Abs(d))
        s == IF d < 0 THEN -1 ELSE 1
    IN  <<(s * n) \div g, (s * d) \div g>>

\* the integer n
Whole(n) == <<n, 1>>
Zero == Whole(0)
One == Whole(1)

IsFinite(x) == x[2] > 0

\* reading an array element: a hole reads as undefined
Read(x) == IF x = Hole THEN Undefined ELSE x

\* ToNumber: undefined converts to NaN
ToNumber(x) == IF x[2] < 0 THEN NaN ELSE x

\* a * b
Mul(a, b) ==
    LET x == ToNumber(a)
        y == ToNumber(b)
    IN  IF x = NaN \/ y = NaN THEN NaN
        ELSE IF IsFinite(x) /\ IsFinite(y) THEN Rat(x[1] * y[1], x[2] * y[2])
        ELSE IF x[1] * y[1] = 0 THEN NaN
        ELSE IF x[1] * y[1] > 0 THEN PosInf ELSE NegInf

\* a + b
Add(a, b) ==
    LET x == ToNumber(a)
        y == ToNumber(b)
    IN  IF x = NaN \/ y = NaN THEN NaN
        ELSE IF IsFinite(x) /\ IsFinite(y) THEN Rat(x[1] * y[2] + y[1] * x[2], x[2] * y[2])
        ELSE IF IsFinite(y) THEN x
        ELSE IF IsFinite(x) THEN y
        ELSE IF x = y THEN x ELSE NaN

\* a / b
Div(a, b) ==
    LET x == ToNumber(a)
        y == ToNumber(b)
    IN  IF x = NaN \/ y = NaN THEN NaN
        ELSE IF IsFinite(y) /\ y[1] # 0 THEN Mul(x, Rat(y[2], y[1]))
        ELSE IF IsFinite(y) THEN (IF x[1] = 0 THEN NaN ELSE IF x[1] > 0 THEN PosInf ELSE NegInf)
        ELSE IF IsFinite(x) THEN Zero ELSE NaN

\* a - b
Sub(a, b) == Add(a, Mul(Whole(-1), b))

\* a < b (false when either is NaN)
Lt(a, b) ==
    LET x == ToNumber(a)
        y == ToNumber(b)
    IN  IF x = NaN \/ y = NaN THEN FALSE
        ELSE IF IsFinite(x) /\ IsFinite(y) THEN x[1] * y[2] < y[1] * x[2]
        ELSE IF IsFinite(x) THEN y = PosInf
        ELSE IF IsFinite(y) THEN x = NegInf
        ELSE x = NegInf /\ y = PosInf

\* a === b on numbers (NaN equals nothing)
StrictEq(a, b) == a # NaN /\ b # NaN /\ a = b

---------------------------------------------------------------------------
(* Arrays. *)

\* a thrown exception
Throw(name) == [cls |-> name, data |-> <<>>]

\* a number as the result of an operation that may throw
Value(x) == [cls |-> "number", data |-> x]

\* a caller's array of rows, as a constructor argument
ArrayOf(rows) == [cls |-> "Array", data |-> rows]

\* row.length = n: drops the entries from index n on, or appends holes
setLength(row, n) ==
    [j \in 1..n |-> IF j <= Len(row) THEN row[j] ELSE Hole]

\* [...row]: a fresh dense array; a hole is copied as undefined
spread(row) == [j \in 1..Len(row) |-> Read(row[j])]

\* xjs.Array.fillHoles(arr, value): a copy of arr with its holes and undefineds
\* replaced by value; arr itself is left as it is
fillHoles(arr, value) ==
    [j \in 1..Len(arr) |-> IF arr[j][2] < 0 THEN value ELSE arr[j]]

---------------------------------------------------------------------------
(* Matrix: the general matrix class MatrixSquare extends.  Its file is not *)
(* among the sources; these operators follow the contract of Matrix.       *)

IsMatrix(x) == x.cls \in {"Matrix", "MatrixSquare"}

\* the Matrix constructor body run by super(rawdata): stores the rows
Matrix_new(rawdata) == [cls |-> "Matrix", data |-> rawdata]

height(m) == Len(m.data)

width(m) == IF Len(m.data) = 0 THEN 0 ELSE Len(m.data[1])

\* Matrix#raw: the rows
raw(m) == m.data

\* Matrix#at(row, col), indices from 0
at(m, row, col) ==
    IF row < 0 \/ col < 0 \/ row >= height(m) \/ col >= width(m)
    THEN Throw("RangeError")
    ELSE Value(Read(m.data[row + 1][col + 1]))

\* Matrix#transposition: a new Matrix, cell [i][j] the source's cell [j][i]
Matrix_transposition(m) ==
    Matrix_new([j \in 1..width(m) |-> [i \in 1..height(m) |-> Read(m.data[i][j])]])

\* Matrix#minor(row, col): a new Matrix without that row and that column
Matrix_minor(m, row, col) ==
    IF height(m) = 0 \/ width(m) = 0 THEN Throw("TypeError")
    ELSE IF row < 0 \/ col < 0 \/ row >= height(m) \/ col >= width(m) THEN Throw("RangeError")
    ELSE Matrix_new([i \in 1..(height(m) - 1) |->
            [j \in 1..(width(m) - 1) |->
                Read(m.data[IF i <= row THEN i ELSE i + 1][IF j <= col THEN j ELSE j + 1])]])

\* Matrix#scale(scalar): a new Matrix, every cell times scalar
Matrix_scale(m, scalar) ==
    Matrix_new([i \in 1..height(m) |-> [j \in 1..width(m) |-> Mul(m.data[i][j], scalar)]])

RECURSIVE DotFrom(_, _, _, _, _)
\* the sum over k' >= k of a[i][k'] * b[k'][j]
DotFrom(a, b, i, j, k) ==
    IF k > Len(b) THEN Zero
    ELSE Add(Mul(a[i][k], b[k][j]), DotFrom(a, b, i, j, k + 1))

\* Matrix#times(multiplier): needs this.width === multiplier.height; the product
\* has this.height rows and multiplier.width columns
Matrix_times(m, multiplier) ==
    IF width(m) # height(multiplier) THEN Throw("DimensionMismatchError")
    ELSE Matrix_new([i \in 1..height(m) |-> [j \in 1..width(multiplier) |->
            DotFrom(m.data, multiplier.data, i, j, 1)]])

---------------------------------------------------------------------------
(* MatrixSquare. *)

\* constructor, lines 46-48: the rows the constructor works on.  A Matrix's rows
\* are copied; the rows of a caller's array are the caller's own row objects.
rawdataOf(data) ==
    IF IsMatrix(data)
    THEN [i \in 1..Len(raw(data)) |-> spread(raw(data)[i])]
    ELSE data.data

\* constructor, lines 49-52: every row is set to the length of rawdata; the
\* filled copy is assigned to the callback's parameter and dropped
padRows(rawdata) ==
    [i \in 1..Len(rawdata) |->
        LET row    == setLength(rawdata[i], Len(rawdata))
            filled == fillHoles(row, Zero)
        IN  row]

\* new MatrixSquare(data)
MatrixSquare_new(data) ==
    [cls |-> "MatrixSquare", data |-> Matrix_new(padRows(rawdataOf(data))).data]

\* the caller's array of rows once new MatrixSquare(rows) has returned: the
\* array itself is untouched (data.map builds another), its row objects are the
\* ones the constructor set the length of
rowsAfterNew(rows) == padRows(rows)

\* MatrixSquare.multIden(size)
multIden(size) ==
    MatrixSquare_new(ArrayOf(
        [i \in 1..size |-> [j \in 1..size |-> IF i = j THEN One ELSE Zero]]))

\* get transposition: super.transposition under a type assertion, no new object
MatrixSquare_transposition(m) == Matrix_transposition(m)

\* get size
size(m) == height(m)

\* minor(row, col)
MatrixSquare_minor(m, row, col) ==
    LET r == Matrix_minor(m, row, col)
    IN  IF IsMatrix(r) THEN MatrixSquare_new(r) ELSE r

\* scale(scalar)
MatrixSquare_scale(m, scalar) == MatrixSquare_new(Matrix_scale(m, scalar))

\* times(multiplier)
MatrixSquare_times(m, multiplier) ==
    LET r == Matrix_times(m, multiplier)
    IN  IF IsMatrix(r) THEN MatrixSquare_new(r) ELSE r

\* method dispatch on the receiver's class
transposition(m) ==
    IF m.cls = "MatrixSquare" THEN MatrixSquare_transposition(m) ELSE Matrix_transposition(m)

minor(m, row, col) ==
    IF m.cls = "MatrixSquare" THEN MatrixSquare_minor(m, row, col) ELSE Matrix_minor(m, row, col)

scale(m, scalar) ==
    IF m.cls = "MatrixSquare" THEN MatrixSquare_scale(m, scalar) ELSE Matrix_scale(m, scalar)

times(m, multiplier) ==
    IF m.cls = "MatrixSquare" THEN MatrixSquare_times(m, multiplier) ELSE Matrix_times(m, multiplier)

\* Array#reduce((a, b) => a + b) with no initial value: holes are skipped, and
\* an array of holes only is a TypeError
RECURSIVE reduceAdd(_, _, _)
reduceAdd(terms, j, acc) ==
    IF j > Len(terms) THEN acc
    ELSE IF terms[j].cls # "number" THEN terms[j]
    ELSE IF terms[j].data = Hole THEN reduceAdd(terms, j + 1, acc)
    ELSE IF acc.cls = "none" THEN reduceAdd(terms, j + 1, terms[j])
    ELSE reduceAdd(terms, j + 1, Value(Add(acc.data, terms[j].data)))

\* a sign that never alternates
sign_constant(k) == One

\* (k % 2 === 0) ? 1 : -1
sign(k) == IF k % 2 = 0 THEN One ELSE Whole(-1)

RECURSIVE MatrixSquare_det(_)
\* get det, lines 77-87
MatrixSquare_det(m) ==
    IF size(m) = 0 THEN Throw("TypeError")
    ELSE IF size(m) = 1 THEN at(m, 0, 0)
    ELSE LET terms == [j \in 1..Len(m.data[1]) |->
                 IF m.data[1][j] = Hole THEN Value(Hole)
                 ELSE LET d == MatrixSquare_det(MatrixSquare_minor(m, 0, j - 1))
                      IN  IF d.cls # "number" THEN d
                          ELSE Value(Mul(Mul(sign(j - 1), m.data[1][j]), d.data))]
             sum == reduceAdd(terms, 1, [cls |-> "none", data |-> NaN])
         IN  IF sum.cls = "none" THEN Throw("TypeError") ELSE sum

\* x.det: the getter exists on MatrixSquare objects only
det(m) == IF m.cls = "MatrixSquare" THEN MatrixSquare_det(m) ELSE Value(Undefined)

\* the cell [i][j] (from 0) of the cofactor grid reciprocal builds, line 104
cofactor(m, i, j) ==
    LET mn == minor(transposition(m), i, j)
        d  == IF IsMatrix(mn) THEN det(mn) ELSE mn
    IN  IF d.cls # "number" THEN d ELSE Value(Mul(sign(i + j), d.data))

\* the error the cofactor grid's construction throws, if any
cofactorError(m) ==
    LET bad == {ij \in (0..(size(m) - 1)) \X (0..(size(m) - 1)) :
                   m.data[ij[1] + 1][ij[2] + 1] # Hole /\ cofactor(m, ij[1], ij[2]).cls # "number"}
    IN  IF bad = {} THEN Value(Zero)
        ELSE cofactor(m, (CHOOSE ij \in bad : TRUE)[1], (CHOOSE ij \in bad : TRUE)[2])

\* lines 103-105: the MatrixSquare of the cofactors, scaled by 1 / det
cofactorsOverDet(m, d) ==
    IF cofactorError(m).cls # "number" THEN cofactorError(m)
    ELSE MatrixSquare_scale(
             MatrixSquare_new(ArrayOf(
                 [i \in 1..Len(m.data) |-> [j \in 1..Len(m.data[i]) |->
                     IF m.data[i][j] = Hole THEN Hole
                     ELSE cofactor(m, i - 1, j - 1).data]])),
             Div(One, d))

\* reciprocal with the size tested before the determinant is taken
reciprocal_sizeFirst(m) ==
    IF size(m) = 0 THEN MatrixSquare_new(ArrayOf(<<>>))
    ELSE LET d == MatrixSquare_det(m)
         IN  IF d.cls # "number" THEN d
             ELSE IF StrictEq(d.data, Zero) THEN Throw("TypeError")
             ELSE IF size(m) = 1 THEN MatrixSquare_new(ArrayOf(<< <<Div(One, d.data)>> >>))
             ELSE cofactorsOverDet(m, d.data)

\* get reciprocal, lines 98-107
MatrixSquare_reciprocal(m) ==
    LET d == MatrixSquare_det(m)
    IN  IF d.cls # "number" THEN d
        ELSE IF StrictEq(d.data, Zero) THEN Throw("TypeError")
        ELSE IF size(m) = 0 THEN MatrixSquare_new(ArrayOf(<<>>))
        ELSE IF size(m) = 1 THEN MatrixSquare_new(ArrayOf(<< <<Div(One, d.data)>> >>))
        ELSE cofactorsOverDet(m, d.data)

\* x.reciprocal: the getter exists on MatrixSquare objects only
reciprocal(m) == IF m.cls = "MatrixSquare" THEN MatrixSquare_reciprocal(m) ELSE Value(Undefined)

---------------------------------------------------------------------------
(* Percentage.  A Percentage object is [cls |-> "Percentage", data |-> p], *)
(* p its number; an argument that is a plain number is Value(p).           *)

\* a <= b
Le(a, b) == Lt(a, b) \/ StrictEq(a, b)

\* a constructor that lets a negative number through
Percentage_new_noSign(p) ==
    IF ~IsFinite(p.data) THEN Throw("AssertionError")
    ELSE [cls |-> "Percentage", data |-> p.data]

\* a constructor that lets an infinite number through
Percentage_new_noFinite(p) ==
    IF ~Le(Zero, p.data) THEN Throw("AssertionError")
    ELSE [cls |-> "Percentage", data |-> p.data]

\* new Percentage(p), lines 215-220: p.valueOf() must pass
\* xjs.Number.assertType(p, 'non-negative') and assertType(p, 'finite')
Percentage_new(p) ==
    IF ~Le(Zero, p.data) THEN Throw("AssertionError")
    ELSE IF ~IsFinite(p.data) THEN Throw("AssertionError")
    ELSE [cls |-> "Percentage", data |-> p.data]

\* Percentage.MULT_IDEN, Percentage.MULT_ABSORB
MULT_IDEN == Percentage_new(Value(One))
MULT_ABSORB == Percentage_new(Value(Zero))

RECURSIVE MathMax(_, _, _)
\* Math.max over vals from index k on, acc the greatest so far
MathMax(vals, k, acc) ==
    IF k > Len(vals) THEN acc
    ELSE IF ToNumber(vals[k]) = NaN \/ acc = NaN THEN NaN
    ELSE MathMax(vals, k + 1, IF Lt(acc, vals[k]) THEN vals[k] ELSE acc)

RECURSIVE MathMin(_, _, _)
\* Math.min over vals from index k on, acc the least so far
MathMin(vals, k, acc) ==
    IF k > Len(vals) THEN acc
    ELSE IF ToNumber(vals[k]) = NaN \/ acc = NaN THEN NaN
    ELSE MathMin(vals, k + 1, IF Lt(vals[k], acc) THEN vals[k] ELSE acc)

\* Percentage.max(...pcts)
Percentage_max(pcts) ==
    Percentage_new(Value(MathMax([k \in 1..Len(pcts) |-> pcts[k].data], 1, NegInf)))

\* Percentage.min(...pcts)
Percentage_min(pcts) ==
    Percentage_new(Value(MathMin([k \in 1..Len(pcts) |-> pcts[k].data], 1, PosInf)))

\* get conjugate
Percentage_conjugate(this) ==
    IF Lt(this.data, Zero) \/ Lt(One, this.data) THEN Throw("RangeError")
    ELSE Percentage_new(Value(Sub(One, this.data)))

\* get reciprocal
Percentage_reciprocal(this) == Percentage_new(Value(Div(MULT_IDEN.data, this.data)))

\* equals(that), that a Percentage
Percentage_equals(this, that) == this = that \/ StrictEq(this.data, that.data)

\* lessThan(that), that a Percentage
Percentage_lessThan(this, that) == Lt(this.data, that.data)

\* clamp with the bounds used in the order given
clamp_noSwap(this, min, max) ==
    LET a == IF min.cls = "Percentage" THEN min ELSE Percentage_new(min)
        b == IF max.cls = "Percentage" THEN max ELSE Percentage_new(max)
    IN  IF a.cls # "Percentage" THEN a
        ELSE IF b.cls # "Percentage" THEN b
        ELSE Percentage_min(<<Percentage_max(<<a, this>>), b>>)

RECURSIVE Percentage_clamp(_, _, _)
\* clamp(min, max), lines 284-288
Percentage_clamp(this, min, max) ==
    IF min.cls = "Percentage" /\ max.cls = "Percentage"
    THEN IF Percentage_lessThan(min, max) \/ Percentage_equals(min, max)
         THEN Percentage_min(<<Percentage_max(<<min, this>>), max>>)
         ELSE Percentage_clamp(this, max, min)
    ELSE LET a == Percentage_new(min)
             b == Percentage_new(max)
         IN  IF a.cls # "Percentage" THEN a
             ELSE IF b.cls # "Percentage" THEN b
             ELSE Percentage_clamp(this, a, b)

\* times(multiplier), lines 295-299
Percentage_times(this, multiplier) ==
    LET m == IF multiplier.cls = "Percentage" THEN multiplier ELSE Percentage_new(multiplier)
    IN  IF m.cls # "Percentage" THEN m
        ELSE Percentage_new(Value(Mul(this.data, m.data)))

---------------------------------------------------------------------------
(* Inputs. *)

\* the n x n grids of cells drawn from CellVals
FullGrids(n) == [1..n -> [1..n -> {Whole(v) : v \in CellVals}]]

\* the grid [[1,2],[3,4]]
Grid1234 == << <<Whole(1), Whole(2)>>, <<Whole(3), Whole(4)>> >>

\* the grid [[1,2,3],[4,5,6],[7,8,10]], of determinant -3
Grid3x3 ==
    << <<Whole(1), Whole(2), Whole(3)>>,
       <<Whole(4), Whole(5), Whole(6)>>,
       <<Whole(7), Whole(8), Whole(10)>> >>

\* the grid [[2,-1,0],[-1,2,-1],[0,-1,2]], of determinant 4
GridTridiagonal ==
    << <<Whole(2), Whole(-1), Whole(0)>>,
       <<Whole(-1), Whole(2), Whole(-1)>>,
       <<Whole(0), Whole(-1), Whole(2)>> >>

SquareInputs ==
    UNION {FullGrids(n) : n \in 0..MaxN} \cup {Grid1234, Grid3x3, GridTridiagonal}

\* a grid of the given row lengths, its cell [i][j] (from 1) the number 10 i + j
Shaped(lens) == [i \in 1..Len(lens) |-> [j \in 1..lens[i] |-> Whole(10 * i + j)]]

\* the grids of up to MaxN rows, each row of any length up to MaxN + 1
RaggedInputs == UNION {{Shaped(lens) : lens \in [1..r -> 0..(MaxN + 1)]} : r \in 0..MaxN}

---------------------------------------------------------------------------
(* The state machine of the matrix operations. *)

NoMatrix == Throw("none")
NoNumber == Throw("none")
NoPct == Throw("none")

PctIdle == pct = NoPct /\ precv = NoPct /\ pargs = <<>>

\* new MatrixSquare(rows) on a caller's array of rows
StartNew(rows) ==
    /\ mat = MatrixSquare_new(ArrayOf(rows))
    /\ prev = NoMatrix
    /\ other = NoMatrix
    /\ num = NoNumber
    /\ src0 = rows
    /\ src = rowsAfterNew(rows)
    /\ op = "new"
    /\ steps = 0

\* an operation of the receiver mat with the result r
MatrixOp(name, r, arg) ==
    /\ mat' = r
    /\ prev' = mat
    /\ other' = arg
    /\ num' = NoNumber
    /\ op' = name
    /\ steps' = steps + 1
    /\ UNCHANGED <<src0, src, pct, precv, pargs>>

Init == PctIdle /\ \E rows \in SquareInputs : StartNew(rows)

\* MatrixSquare.multIden(n)
MultIden ==
    \E n \in 0..(MaxN + 1) :
        /\ mat' = multIden(n)
        /\ prev' = NoMatrix
        /\ other' = NoMatrix
        /\ num' = NoNumber
        /\ src0' = <<>>
        /\ src' = <<>>
        /\ op' = "multIden"
        /\ steps' = 0
        /\ UNCHANGED <<pct, precv, pargs>>

\* mat.det
Det ==
    /\ mat.cls = "MatrixSquare"
    /\ op \in {"new", "multIden"}
    /\ num' = MatrixSquare_det(mat)
    /\ prev' = mat
    /\ op' = "det"
    /\ UNCHANGED <<mat, other, src0, src, steps, pct, precv, pargs>>

\* mat.reciprocal
Reciprocal ==
    /\ mat.cls = "MatrixSquare"
    /\ op \in {"new", "multIden", "det"}
    /\ MatrixOp("reciprocal", MatrixSquare_reciprocal(mat), NoMatrix)

\* A.times(A.reciprocal), A the receiver of the reciprocal just taken
TimesReciprocal ==
    /\ op = "reciprocal"
    /\ IsMatrix(mat)
    /\ mat' = times(prev, mat)
    /\ other' = mat
    /\ op' = "timesReciprocal"
    /\ steps' = steps + 1
    /\ UNCHANGED <<prev, num, src0, src, pct, precv, pargs>>

Next == MultIden \/ Det \/ Reciprocal \/ TimesReciprocal

Spec == Init /\ [][Next]_vars

---------------------------------------------------------------------------
(* The state machine of chained MatrixSquare transforms. *)

\* the scalars scale is called with
Scalars == {Zero, Whole(-1), Rat(1, 2)}

\* the r x c grid whose cell [i][j] (from 1) is i + j
RampGrid(r, c) == [i \in 1..r |-> [j \in 1..c |-> Whole(i + j)]]

\* the multipliers times is called with: the receiver itself, the identity of
\* its size, general matrices of width(m) rows and any number of columns, and an
\* identity one row too tall
Multipliers(m) ==
    {m, multIden(height(m)), multIden(height(m) + 1)}
        \cup {Matrix_new(RampGrid(width(m), c)) : c \in 1..(MaxN + 1)}

InitSquare == PctIdle /\ StartNew(<<>>)

\* new MatrixSquare(rows) on a caller's array of rows
New ==
    \E rows \in RaggedInputs :
        /\ mat' = MatrixSquare_new(ArrayOf(rows))
        /\ prev' = NoMatrix
        /\ other' = NoMatrix
        /\ num' = NoNumber
        /\ src0' = rows
        /\ src' = rowsAfterNew(rows)
        /\ op' = "new"
        /\ steps' = 0
        /\ UNCHANGED <<pct, precv, pargs>>

\* new MatrixSquare(mat) on a matrix object
NewFromMatrix ==
    /\ IsMatrix(mat)
    /\ steps < MaxOps
    /\ MatrixOp("newFromMatrix", MatrixSquare_new(mat), NoMatrix)

\* mat.transposition
Transposition ==
    /\ IsMatrix(mat)
    /\ steps < MaxOps
    /\ MatrixOp("transposition", transposition(mat), NoMatrix)

\* mat.minor(row, col)
Minor ==
    /\ IsMatrix(mat)
    /\ steps < MaxOps
    /\ \E row, col \in 0..MaxN : MatrixOp("minor", minor(mat, row, col), NoMatrix)

\* mat.scale(scalar)
Scale ==
    /\ IsMatrix(mat)
    /\ steps < MaxOps
    /\ \E scalar \in Scalars : MatrixOp("scale", scale(mat, scalar), NoMatrix)

\* mat.times(multiplier)
Times ==
    /\ IsMatrix(mat)
    /\ steps < MaxOps
    /\ \E multiplier \in Multipliers(mat) :
           MatrixOp("times", times(mat, multiplier), multiplier)

NextSquare == New \/ NewFromMatrix \/ MultIden \/ Transposition \/ Minor \/ Scale \/ Times

SpecSquare == InitSquare /\ [][NextSquare]_vars

---------------------------------------------------------------------------
(* The state machine of the Percentage operations. *)

\* the numbers Percentages are constructed from
PctNumbers ==
    {Whole(-1), Zero, Rat(1, 2), One, Rat(3, 2), Whole(2), NaN, PosInf}

\* the arguments of times and clamp: Percentages, and plain numbers
PctArgs ==
    {[cls |-> "Percentage", data |-> v] : v \in {Zero, Rat(1, 2), One, Rat(3, 2)}}
        \cup {Value(Whole(-1)), Value(Whole(2))}

MatrixIdle ==
    /\ mat = NoMatrix /\ prev = NoMatrix /\ other = NoMatrix /\ num = NoNumber
    /\ src0 = <<>> /\ src = <<>>

\* the state after new Percentage()
InitPercentage ==
    /\ MatrixIdle
    /\ pct = MULT_ABSORB
    /\ precv = NoPct
    /\ pargs = <<>>
    /\ op = "new"
    /\ steps = 0

\* an operation of the receiver pct with the result r
PctOp(name, r, args) ==
    /\ pct.cls = "Percentage"
    /\ steps < MaxOps
    /\ pct' = r
    /\ precv' = pct
    /\ pargs' = args
    /\ op' = name
    /\ steps' = steps + 1
    /\ UNCHANGED <<mat, prev, other, num, src0, src>>

\* new Percentage(p)
PNew ==
    \E p \in PctNumbers :
        /\ pct' = Percentage_new(Value(p))
        /\ precv' = NoPct
        /\ pargs' = <<Value(p)>>
        /\ op' = "new"
        /\ steps' = 0
        /\ UNCHANGED <<mat, prev, other, num, src0, src>>

PTimes == \E m \in PctArgs : PctOp("times", Percentage_times(pct, m), <<m>>)

PConjugate == PctOp("conjugate", Percentage_conjugate(pct), <<>>)

PReciprocal == PctOp("reciprocal", Percentage_reciprocal(pct), <<>>)

PClamp ==
    \E min, max \in PctArgs : PctOp("clamp", Percentage_clamp(pct, min, max), <<min, max>>)

\* Percentage.max(pct, a, b)
PMax ==
    \E a, b \in {x \in PctArgs : x.cls = "Percentage"} :
        PctOp("max", Percentage_max(<<pct, a, b>>), <<pct, a, b>>)

\* Percentage.min(pct, a, b)
PMin ==
    \E a, b \in {x \in PctArgs : x.cls = "Percentage"} :
        PctOp("min", Percentage_min(<<pct, a, b>>), <<pct, a, b>>)

NextPercentage == PNew \/ PTimes \/ PConjugate \/ PReciprocal \/ PClamp \/ PMax \/ PMin

SpecPercentage == InitPercentage /\ [][NextPercentage]_vars

---------------------------------------------------------------------------
(* The reference determinant: the sum over the permutations. *)

PermsOf(n) == {f \in [1..n -> 1..n] : \A i, j \in 1..n : f[i] = f[j] => i = j}

\* +1 for an even permutation, -1 for an odd one
Signature(f, n) ==
    IF Cardinality({ij \in (1..n) \X (1..n) : ij[1] < ij[2] /\ f[ij[1]] > f[ij[2]]}) % 2 = 0
    THEN One ELSE Whole(-1)

RECURSIVE ProductAlong(_, _, _)
\* the product of data[i][f[i]] for i from k up
ProductAlong(data, f, k) ==
    IF k > Len(data) THEN One ELSE Mul(data[k][f[k]], ProductAlong(data, f, k + 1))

RECURSIVE SumOver(_, _)
SumOver(data, perms) ==
    IF perms = {} THEN Zero
    ELSE LET f == CHOOSE g \in perms : TRUE
         IN  Add(Mul(Signature(f, Len(data)), ProductAlong(data, f, 1)),
                 SumOver(data, perms \ {f}))

PermutationDet(data) == SumOver(data, PermsOf(Len(data)))

\* every cell of the matrix is a finite number
IsNumberGrid(m) ==
    \A i \in 1..Len(m.data) : \A j \in 1..Len(m.data[i]) : IsFinite(m.data[i][j])

\* a MatrixSquare object of size n with n cells, all finite numbers, in each row
IsFullSquare(m) ==
    /\ m.cls = "MatrixSquare"
    /\ \A i \in 1..Len(m.data) : Len(m.data[i]) = Len(m.data)
    /\ IsNumberGrid(m)

---------------------------------------------------------------------------
(* Claims. *)

\* C1: for every MatrixSquare A of size n >= 1 with a nonzero determinant,
\* A.times(A.reciprocal) is MatrixSquare.multIden(n), cell by cell.
C1_TimesReciprocalIsIdentity ==
    (/\ op = "timesReciprocal"
     /\ IsFullSquare(prev)
     /\ size(prev) >= 1
     /\ PermutationDet(prev.data) # Zero)
    => (IsMatrix(mat) /\ mat.data = multIden(size(prev)).data)

\* C2: det of a MatrixSquare of size n >= 1 with number cells is its
\* determinant: the single cell for n = 1, the cofactor expansion along row 0 for
\* n >= 2, which is the permutation sum.
C2_DetIsDeterminant ==
    (op = "det" /\ IsFullSquare(prev) /\ size(prev) >= 1)
    => /\ num.cls = "number"
       /\ num.data = PermutationDet(prev.data)
       /\ prev.data = Grid1234 => num.data = Whole(-2)
       /\ prev.data = GridTridiagonal => num.data = Whole(4)
       /\ prev = multIden(size(prev)) => num.data = One

\* C2 happens: det of the 3 x 3 grid [[1,2,3],[4,5,6],[7,8,10]] was taken, by
\* an expansion into 2 x 2 minors, and is -3.
C2_Witness ==
    op = "det" /\ prev.data = Grid3x3 /\ num.cls = "number" /\ num.data = Whole(-3)

\* C6 as stated: reciprocal of a MatrixSquare of size 0 returns the empty
\* MatrixSquare and does not raise, while det of it raises a TypeError.
C6_EmptyReciprocalReturnsEmpty ==
    /\ (op = "reciprocal" /\ size(prev) = 0) => (mat.cls = "MatrixSquare" /\ mat.data = <<>>)
    /\ (op = "det" /\ size(prev) = 0) => num.cls = "TypeError"

\* C6 as the code has it: reciprocal of a MatrixSquare of size 0 raises the
\* TypeError of det, which it evaluates first; det of it raises a TypeError.
C6_EmptyReciprocalThrows ==
    /\ (op = "reciprocal" /\ size(prev) = 0) => mat.cls = "TypeError"
    /\ (op = "det" /\ size(prev) = 0) => num.cls = "TypeError"

\* C6 happens: reciprocal was taken of an empty MatrixSquare.
C6_Witness ==
    op = "reciprocal" /\ prev.cls = "MatrixSquare" /\ size(prev) = 0

\* C3: every result of transposition, minor, scale or times on a MatrixSquare
\* is itself a MatrixSquare, with height and width the derived size.
C3_TransformsStaySquare ==
    (/\ op \in {"transposition", "minor", "scale", "times"}
     /\ IsFullSquare(prev) /\ size(prev) >= 1
     /\ IsMatrix(mat))
    => /\ mat.cls = "MatrixSquare"
       /\ height(mat) = (IF op = "minor" THEN size(prev) - 1 ELSE size(prev))
       /\ width(mat) = height(mat)

\* C4: for A and B with A.width === B.height, A.times(B) has A's height and
\* B's width, also when A is a MatrixSquare and B is not square.
C4_TimesDimensions ==
    (/\ op = "times"
     /\ IsMatrix(prev) /\ IsNumberGrid(prev)
     /\ IsMatrix(other) /\ IsNumberGrid(other)
     /\ width(prev) = height(other))
    => /\ IsMatrix(mat)
       /\ height(mat) = height(prev)
       /\ width(mat) = width(other)

\* C5: a MatrixSquare constructed from a grid of R rows has R rows of R cells:
\* the cells of the grid where it has them, the number 0 beyond a short row's
\* length, and nothing of a long row beyond column R - 1.
C5_NewPadsWithZero ==
    op = "new"
    => /\ mat.cls = "MatrixSquare"
       /\ height(mat) = Len(src0)
       /\ \A i \in 1..Len(mat.data) :
            /\ Len(mat.data[i]) = Len(src0)
            /\ \A j \in 1..Len(mat.data[i]) :
                 mat.data[i][j] = (IF j <= Len(src0[i]) THEN src0[i][j] ELSE Zero)

\* C10: constructing a MatrixSquare from a caller's array of rows leaves every
\* row of the caller with its length and cells.
C10_NewLeavesCallerRows ==
    op = "new" => src = src0

\* C7 as stated: reciprocal of the Percentage 0 yields an infinite value and
\* raises no error; of a Percentage p > 0 it yields the Percentage 1/p.
C7_ReciprocalOfZeroIsInfinite ==
    op = "reciprocal"
    => IF precv = MULT_ABSORB
       THEN pct.cls = "Percentage" /\ ~IsFinite(pct.data)
       ELSE pct.cls = "Percentage" /\ pct.data = Div(One, precv.data)

\* C7 as the code has it: reciprocal of the Percentage 0 raises the error of
\* the constructor, which rejects the infinite quotient; of a Percentage p > 0
\* it yields the Percentage 1/p.
C7_ReciprocalOfZeroThrows ==
    op = "reciprocal"
    => IF precv = MULT_ABSORB
       THEN pct.cls = "AssertionError"
       ELSE pct.cls = "Percentage" /\ pct.data = Div(One, precv.data)

\* C7 happens: reciprocal was taken of the Percentage 0.
C7_Witness ==
    op = "reciprocal" /\ precv = MULT_ABSORB /\ pct.cls # "Percentage"

\* a Percentage object holds a finite number >= 0
IsValidPercentage(x) == x.cls = "Percentage" => (IsFinite(x.data) /\ Le(Zero, x.data))

\* C8: every Percentage that exists holds a finite number >= 0; construction
\* from a negative or non-finite number fails; conjugate raises a RangeError
\* exactly when p > 1.
C8_PercentagesAreFiniteNonNegative ==
    /\ IsValidPercentage(pct)
    /\ IsValidPercentage(precv)
    /\ (op = "new" /\ pargs # <<>> /\ (~IsFinite(pargs[1].data) \/ Lt(pargs[1].data, Zero)))
           => pct.cls # "Percentage"
    /\ op = "conjugate" => (pct.cls = "RangeError" <=> Lt(One, precv.data))
    /\ op = "conjugate" => (pct.cls = "Percentage" <=> ~Lt(One, precv.data))

\* C8 happens: after a chain of operations conjugate was refused for a p > 1.
C8_Witness ==
    /\ op = "conjugate" /\ steps >= 2
    /\ Lt(One, precv.data) /\ pct.cls = "RangeError"

\* C9: p.clamp(min, max) on Percentages is lo if p < lo, hi if p > hi, else p,
\* lo the smaller and hi the larger of min and max; it lies in [lo, hi].
C9_ClampIsBetweenBounds ==
    (op = "clamp" /\ pargs[1].cls = "Percentage" /\ pargs[2].cls = "Percentage")
    => LET lo == IF Lt(pargs[2].data, pargs[1].data) THEN pargs[2].data ELSE pargs[1].data
           hi == IF Lt(pargs[2].data, pargs[1].data) THEN pargs[1].data ELSE pargs[2].data
       IN  /\ pct.cls = "Percentage"
           /\ pct.data = (IF Lt(precv.data, lo) THEN lo
                          ELSE IF Lt(hi, precv.data) THEN hi ELSE precv.data)
           /\ Le(lo, pct.data) /\ Le(pct.data, hi)

\* C9 happens: clamp was called with its bounds in the wrong order on a value
\* strictly between them.
C9_Witness ==
    /\ op = "clamp" /\ pargs[1].cls = "Percentage" /\ pargs[2].cls = "Percentage"
    /\ Lt(pargs[2].data, pargs[1].data)
    /\ Lt(pargs[2].data, precv.data) /\ Lt(precv.data, pargs[1].data)
    /\ pct.data = precv.data

====
